---- MODULE Spec2Model ----
(***************************************************************************)
(* Credential storage and retrieval of omni-wa-meta-api:                   *)
(*   utils/crypto.ts  AES-256-GCM encrypt/decrypt under a process-wide KEY *)
(*   utils/redis.ts   keyFor, the storage key of an integration id         *)
(*   utils/wa.ts      saveCreds, getCreds, waFetch                         *)
(* Strings are sequences of one-character strings, Buffers are sequences   *)
(* of bytes (0..255).                                                      *)
(***************************************************************************)
EXTENDS Integers, Sequences, FiniteSets, TLC

\* ------------------------------------------------------------ bounds
\* Calls (saveCreds/getCreds/waFetch) started in one behaviour of Spec.
MaxCalls == 3
\* Calls that are between their start and their return at one time.
MaxInFlight == 2
\* Lines written with console.warn in one behaviour of SpecKey.
MaxLogLines == 4
\* Calls started in one behaviour of SpecCorrupt.
MaxCorruptCalls == 2
\* Calls started in one behaviour of SpecFetch.
MaxFetchCalls == 2
\* encrypt calls made in one behaviour of SpecCrypto.
MaxEncrypts == 2
\* SpecLife: the saveCreds, getCreds and waFetch calls started.
MaxLifeCalls == 1
\* SpecRead: the saveCreds, getCreds and waFetch calls started.
MaxReadCalls == 2

\* ------------------------------------------------------------ program constants
\* crypto.randomBytes(12): the nonce length.
IvLen == 12
\* raw.subarray(12, 28): the tag ends at offset 28.
TagEnd == 28
\* KEY.length !== 32
KeyLen == 32

\* ------------------------------------------------------------ values
\* JavaScript's undefined (an unset environment variable, an absent property).
Undefined == <<"undefined">>
\* JavaScript's null (redis.get of a missing key).
Null == <<"null">>

\* The sequence f as a tuple: a function on 1..n written as a sequence.
Tuple(f) == f \o <<>>

Rep(c, n) == Tuple([i \in 1..n |-> c])

Min(a, b) == IF a < b THEN a ELSE b

\* ------------------------------------------------------------ Buffer codecs
HexDigits == <<"0", "1", "2", "3", "4", "5", "6", "7", "8", "9",
               "a", "b", "c", "d", "e", "f">>
HexUpper == <<"A", "B", "C", "D", "E", "F">>

IsHexChar(c) ==
  \/ \E i \in 1..16 : HexDigits[i] = c
  \/ \E i \in 1..6 : HexUpper[i] = c

\* The value of a hexadecimal digit, upper or lower case.
HexVal(c) ==
  IF \E i \in 1..16 : HexDigits[i] = c
    THEN (CHOOSE i \in 1..16 : HexDigits[i] = c) - 1
    ELSE (CHOOSE i \in 1..6 : HexUpper[i] = c) + 9

\* The number of leading pairs of s that are both hexadecimal digits.
RECURSIVE HexPairs(_, _)
HexPairs(s, k) ==
  IF 2 * k + 2 <= Len(s) /\ IsHexChar(s[2 * k + 1]) /\ IsHexChar(s[2 * k + 2])
    THEN HexPairs(s, k + 1)
    ELSE k

\* Buffer.from(s, "hex"): decodes pairs of digits and stops at the first pair
\* that is not two hexadecimal digits; a trailing odd digit is dropped.
HexDecode(s) ==
  Tuple([k \in 1..HexPairs(s, 0) |-> 16 * HexVal(s[2 * k - 1]) + HexVal(s[2 * k])])

\* buf.toString("hex")
HexEncode(raw) ==
  Tuple([j \in 1..(2 * Len(raw)) |->
     LET b == raw[(j + 1) \div 2]
     IN  IF j % 2 = 1 THEN HexDigits[(b \div 16) + 1] ELSE HexDigits[(b % 16) + 1]])

B64Chars ==
  <<
    "A", "B", "C", "D", "E", "F", "G", "H", "I", "J", "K", "L", "M", "N",
    "O", "P", "Q", "R", "S", "T", "U", "V", "W", "X", "Y", "Z", "a", "b",
    "c", "d", "e", "f", "g", "h", "i", "j", "k", "l", "m", "n", "o", "p",
    "q", "r", "s", "t", "u", "v", "w", "x", "y", "z", "0", "1", "2", "3",
    "4", "5", "6", "7", "8", "9", "+", "/" >>

\* The sextet of each base64 character; Node also reads the URL-safe "-" and
\* "_".
RECURSIVE SextetTable(_)
SextetTable(k) ==
  IF k = 0 THEN ("-" :> 62) @@ ("_" :> 63)
  ELSE (B64Chars[k] :> k - 1) @@ SextetTable(k - 1)

B64Val == SextetTable(64)

IsB64Char(c) == c \in DOMAIN B64Val

\* The number of characters before the first "=" (all of s when it has none).
B64Cut(s) ==
  LET pads == {i \in 1..Len(s) : s[i] = "="}
  IN  IF pads = {} THEN Len(s)
      ELSE (CHOOSE i \in pads : \A j \in pads : i <= j) - 1

\* Buffer.from(s, "base64"): characters outside the alphabet are skipped,
\* decoding stops at the first "=", and every full 8 bits of the sextets
\* read give one byte.
B64Decode(s) ==
  LET legal == SelectSeq(SubSeq(s, 1, B64Cut(s)), IsB64Char)
      v == Tuple([i \in 1..Len(legal) |-> B64Val[legal[i]]])
      n == (Len(legal) * 6) \div 8
  IN  Tuple([k \in 1..n |->
         LET g == 4 * ((k - 1) \div 3)
             t == (k - 1) % 3
         IN  IF t = 0 THEN v[g + 1] * 4 + (v[g + 2] \div 16)
             ELSE IF t = 1 THEN (v[g + 2] % 16) * 16 + (v[g + 3] \div 4)
             ELSE (v[g + 3] % 4) * 64 + v[g + 4]])

\* buf.toString("base64"): groups of three bytes as four characters, the last
\* group padded with "=".
B64Encode(raw) ==
  LET n == Len(raw)
      At(i) == IF i <= n THEN raw[i] ELSE 0
  IN  Tuple([j \in 1..(4 * ((n + 2) \div 3)) |->
         LET g == 3 * ((j - 1) \div 4)
             t == (j - 1) % 4
             b0 == At(g + 1)
             b1 == At(g + 2)
             b2 == At(g + 3)
         IN  IF t = 0 THEN B64Chars[(b0 \div 4) + 1]
             ELSE IF t = 1 THEN B64Chars[(b0 % 4) * 16 + (b1 \div 16) + 1]
             ELSE IF t = 2
               THEN IF g + 2 > n THEN "="
                    ELSE B64Chars[(b1 % 16) * 4 + (b2 \div 64) + 1]
             ELSE IF g + 3 > n THEN "=" ELSE B64Chars[(b2 % 64) + 1]])

Ascii ==
  <<
    " ", "!", "\"", "#", "$", "%", "&", "'", "(", ")", "*", "+", ",", "-",
    ".", "/", "0", "1", "2", "3", "4", "5", "6", "7", "8", "9", ":", ";",
    "<", "=", ">", "?", "@", "A", "B", "C", "D", "E", "F", "G", "H", "I",
    "J", "K", "L", "M", "N", "O", "P", "Q", "R", "S", "T", "U", "V", "W",
    "X", "Y", "Z", "[", "\\", "]", "^", "_", "U+0060", "a", "b", "c", "d", "e",
    "f", "g", "h", "i", "j", "k", "l", "m", "n", "o", "p", "q", "r", "s",
    "t", "u", "v", "w", "x", "y", "z", "{", "|", "}", "~" >>

\* What buf.toString("utf8") gives for a byte of 128 and more, and for the
\* control bytes below 32.
Replacement == "U+FFFD"
Control == "CTRL"

\* The code of each printable ASCII character.
RECURSIVE CodeTable(_)
CodeTable(k) == IF k = 0 THEN <<>> ELSE (Ascii[k] :> k + 31) @@ CodeTable(k - 1)

CodeOf == CodeTable(95)

\* Buffer.from(str): UTF-8 of a string of printable ASCII characters.
Utf8Encode(str) == Tuple([i \in 1..Len(str) |-> CodeOf[str[i]]])

\* buf.toString("utf8")
Utf8Decode(raw) ==
  Tuple([i \in 1..Len(raw) |->
     IF raw[i] >= 32 /\ raw[i] <= 126 THEN Ascii[raw[i] - 31]
     ELSE IF raw[i] < 32 THEN Control
     ELSE IF raw[i] = 127 THEN "U+007F"
     ELSE Replacement])

\* ------------------------------------------------------------ results
\* What a call gives its caller: a value, or a thrown error with the name of
\* its class and its message.
Ok(v) == [ok |-> TRUE, value |-> v]
Throw(n, m) == [ok |-> FALSE, name |-> n, message |-> m]

\* ------------------------------------------------------------ objects and JSON
\* An object is the sequence of its own properties <<key, value>> in insertion
\* order; a value is a string or Undefined.
Keys(obj) == {obj[i][1] : i \in 1..Len(obj)}

\* obj[k]: the value of the last property named k, Undefined when there is none.
Get(obj, k) ==
  IF k \in Keys(obj)
    THEN obj[CHOOSE i \in 1..Len(obj) :
               obj[i][1] = k /\ \A j \in (i + 1)..Len(obj) : obj[j][1] /= k][2]
    ELSE Undefined

\* Two objects with the same value for every property name; a property that is
\* absent reads as Undefined, as one that holds undefined does.
SameObject(a, b) == \A k \in Keys(a) \cup Keys(b) : Get(a, k) = Get(b, k)

\* Escaped with the backslash left as it is.
RECURSIVE EscapedQuoteOnly(_, _)
EscapedQuoteOnly(str, i) ==
  IF i > Len(str) THEN <<>>
  ELSE (IF str[i] = "\"" THEN <<"\\", str[i]>> ELSE <<str[i]>>)
         \o EscapedQuoteOnly(str, i + 1)

\* JSON.stringify of a string: quoted, with the quote and the backslash escaped.
RECURSIVE Escaped(_, _)
Escaped(str, i) ==
  IF i > Len(str) THEN <<>>
  ELSE (IF str[i] = "\"" \/ str[i] = "\\" THEN <<"\\", str[i]>> ELSE <<str[i]>>)
         \o Escaped(str, i + 1)

Quote(str) == <<"\"">> \o Escaped(str, 1) \o <<"\"">>

\* The members of obj from property i on; a property holding undefined is left
\* out.
RECURSIVE Members(_, _, _)
Members(obj, i, first) ==
  IF i > Len(obj) THEN <<>>
  ELSE IF obj[i][2] = Undefined THEN Members(obj, i + 1, first)
  ELSE (IF first THEN <<>> ELSE <<",">>)
         \o Quote(obj[i][1]) \o <<":">> \o Quote(obj[i][2])
         \o Members(obj, i + 1, FALSE)

\* JSON.stringify(obj) for an object of string properties.
JSONStringify(obj) == <<"{">> \o Members(obj, 1, TRUE) \o <<"}">>

\* The SyntaxError of JSON.parse when it cannot go on at position i of text:
\* the message, given in its parts, names the character found there and its
\* offset, or the end of the text.
SyntaxError(text, i) ==
  IF i > Len(text) THEN Throw("SyntaxError", <<"Unexpected end of JSON input">>)
  ELSE Throw("SyntaxError",
             <<"Unexpected token ", text[i], " in JSON at position ", i - 1>>)

\* The position of the first character of text at or after i that is no space.
RECURSIVE SkipWs(_, _)
SkipWs(text, i) ==
  IF i <= Len(text) /\ text[i] = " " THEN SkipWs(text, i + 1) ELSE i

\* The characters of a JSON string whose opening quote is before position i:
\* [ok, next, str], next being the position after the closing quote.
RECURSIVE StringBody(_, _, _)
StringBody(text, i, acc) ==
  IF i > Len(text) THEN [ok |-> FALSE, next |-> i, str |-> acc]
  ELSE IF text[i] = "\"" THEN [ok |-> TRUE, next |-> i + 1, str |-> acc]
  ELSE IF text[i] = Control THEN [ok |-> FALSE, next |-> i, str |-> acc]
  ELSE IF text[i] = "\\"
    THEN IF i + 1 <= Len(text) /\ text[i + 1] \in {"\"", "\\", "/"}
           THEN StringBody(text, i + 2, Append(acc, text[i + 1]))
         ELSE IF i + 1 <= Len(text) /\ text[i + 1] \in {"b", "f", "n", "r", "t"}
           THEN StringBody(text, i + 2, Append(acc, Control))
         ELSE [ok |-> FALSE, next |-> i, str |-> acc]
  ELSE StringBody(text, i + 1, Append(acc, text[i]))

ParseString(text, i) ==
  IF i <= Len(text) /\ text[i] = "\""
    THEN StringBody(text, i + 1, <<>>)
    ELSE [ok |-> FALSE, next |-> i, str |-> <<>>]

\* The members of an object from position i (the start of a key) on.
RECURSIVE ParseMembers(_, _, _)
ParseMembers(text, i, acc) ==
  LET k == ParseString(text, SkipWs(text, i))
      colon == SkipWs(text, k.next)
      v == ParseString(text, SkipWs(text, colon + 1))
      after == SkipWs(text, v.next)
  IN  IF ~k.ok THEN SyntaxError(text, k.next)
      ELSE IF colon > Len(text) \/ text[colon] /= ":" THEN SyntaxError(text, colon)
      ELSE IF ~v.ok THEN SyntaxError(text, v.next)
      ELSE IF after > Len(text) THEN SyntaxError(text, after)
      ELSE IF text[after] = ","
        THEN ParseMembers(text, after + 1, Append(acc, <<k.str, v.str>>))
      ELSE IF text[after] = "}" /\ SkipWs(text, after + 1) > Len(text)
        THEN Ok(Append(acc, <<k.str, v.str>>))
      ELSE IF text[after] = "}" THEN SyntaxError(text, SkipWs(text, after + 1))
      ELSE SyntaxError(text, after)

\* JSON.parse(text) for the texts JSON.stringify gives for such objects: an
\* object whose members are strings.
JSONParse(text) ==
  LET open == SkipWs(text, 1)
      first == SkipWs(text, open + 1)
  IN  IF open > Len(text) \/ text[open] /= "{" THEN SyntaxError(text, open)
      ELSE IF first <= Len(text) /\ text[first] = "}"
        THEN IF SkipWs(text, first + 1) > Len(text) THEN Ok(<<>>)
             ELSE SyntaxError(text, SkipWs(text, first + 1))
      ELSE ParseMembers(text, first, <<>>)

\* ------------------------------------------------------------ AES-256-GCM
\* Node's aes-256-gcm cipher as an ideal AEAD over bytes: a keystream of the
\* key and the nonce is added to the plaintext byte by byte, and the tag is a
\* 16-byte digest in which every byte of the key, the nonce and the
\* ciphertext counts, so a change of any one of them changes the tag.
TagLen == TagEnd - IvLen

RECURSIVE SumSeq(_, _)
SumSeq(raw, i) == IF i > Len(raw) THEN 0 ELSE raw[i] + SumSeq(raw, i + 1)

\* The sum of the bytes of raw at the positions j, j + 16, j + 32, ...
RECURSIVE Fold(_, _)
Fold(raw, j) == IF j > Len(raw) THEN 0 ELSE raw[j] + Fold(raw, j + TagLen)

GcmKeystream(K, iv, n) ==
  LET base == 3 * SumSeq(K, 1) + 7 * SumSeq(iv, 1) + 101
  IN  Tuple([i \in 1..n |-> (base + 13 * i) % 256])

\* cipher.update(plain) and cipher.final()
GcmEncrypt(K, iv, plain) ==
  LET ks == GcmKeystream(K, iv, Len(plain))
  IN  Tuple([i \in 1..Len(plain) |-> (plain[i] + ks[i]) % 256])

\* decipher.update(data)
GcmDecrypt(K, iv, data) ==
  LET ks == GcmKeystream(K, iv, Len(data))
  IN  Tuple([i \in 1..Len(data) |-> (data[i] + 256 - ks[i]) % 256])

\* cipher.getAuthTag(): the 16-byte tag of the ciphertext under K and iv.
GcmTag(K, iv, data) ==
  Tuple([j \in 1..TagLen |->
     (3 * Fold(K, j) + 5 * Fold(iv, j) + Fold(data, j) + 7 * Len(data) + j) % 256])

\* The tag lengths decipher.setAuthTag accepts for GCM.
ValidTagLengths == {4, 8, 12, 13, 14, 15, 16}

\* ------------------------------------------------------------ utils/crypto.ts
\* encrypt with a nonce that is the same in every call.
encryptFixedIv(K, obj, iv) ==
  IF Len(K) /= KeyLen THEN Throw("RangeError", "Invalid key length")
  ELSE LET plain == Utf8Encode(JSONStringify(obj))
           enc == GcmEncrypt(K, Rep(0, IvLen), plain)
           tag == GcmTag(K, Rep(0, IvLen), enc)
       IN  Ok(B64Encode(Rep(0, IvLen) \o tag \o enc))

\* A blob with the layout of encrypt's and the serialized record in clear.
encryptPlain(K, obj, iv) ==
  Ok(B64Encode(iv \o Rep(0, TagLen) \o Utf8Encode(JSONStringify(obj))))

\* encrypt(obj) under the key K, iv being the 12 bytes crypto.randomBytes gave.
\* createCipheriv throws for a key that is not 32 bytes long.
encryptTagLast(K, obj, iv) ==
  IF Len(K) /= KeyLen THEN Throw("RangeError", "Invalid key length")
  ELSE LET plain == Utf8Encode(JSONStringify(obj))
           enc == GcmEncrypt(K, iv, plain)
           tag == GcmTag(K, iv, enc)
       IN  Ok(B64Encode(iv \o enc \o tag))

encrypt(K, obj, iv) ==
  IF Len(K) /= KeyLen THEN Throw("RangeError", "Invalid key length")
  ELSE LET plain == Utf8Encode(JSONStringify(obj))
           enc == GcmEncrypt(K, iv, plain)
           tag == GcmTag(K, iv, enc)
       IN  Ok(B64Encode(iv \o tag \o enc))

\* decrypt under one fixed key, whatever the key of the process is.
decryptFixedKey(K, b64) ==
  LET raw == B64Decode(b64)
      iv == SubSeq(raw, 1, Min(IvLen, Len(raw)))
      tag == SubSeq(raw, IvLen + 1, Min(TagEnd, Len(raw)))
      data == SubSeq(raw, TagEnd + 1, Len(raw))
      Z == Rep(0, KeyLen)
  IN  IF tag /= SubSeq(GcmTag(Z, iv, data), 1, Len(tag))
        THEN Throw("Error", "Unsupported state or unable to authenticate data")
        ELSE JSONParse(Utf8Decode(GcmDecrypt(Z, iv, data)))

\* decrypt without the check of the tag.
decryptNoAuth(K, b64) ==
  LET raw == B64Decode(b64)
      iv == SubSeq(raw, 1, Min(IvLen, Len(raw)))
      data == SubSeq(raw, TagEnd + 1, Len(raw))
  IN  IF Len(K) /= KeyLen THEN Throw("RangeError", "Invalid key length")
      ELSE JSONParse(Utf8Decode(GcmDecrypt(K, iv, data)))

\* decrypt(b64) under the key K.
decrypt(K, b64) ==
  LET raw == B64Decode(b64)
      iv == SubSeq(raw, 1, Min(IvLen, Len(raw)))
      tag == SubSeq(raw, IvLen + 1, Min(TagEnd, Len(raw)))
      data == SubSeq(raw, TagEnd + 1, Len(raw))
  IN  IF Len(K) /= KeyLen THEN Throw("RangeError", "Invalid key length")
      ELSE IF Len(iv) = 0 THEN Throw("TypeError", "Invalid initialization vector")
      ELSE IF Len(tag) \notin ValidTagLengths
        THEN Throw("TypeError", "Invalid authentication tag length")
      ELSE IF tag /= SubSeq(GcmTag(K, iv, data), 1, Len(tag))
        THEN Throw("Error", "Unsupported state or unable to authenticate data")
      ELSE JSONParse(Utf8Decode(GcmDecrypt(K, iv, data)))

\* ------------------------------------------------------------ utils/redis.ts
KeyPrefix == <<"w", "a", ":", "i", "n", "t", "e", "g", "r", "a", "t", "i", "o", "n", ":">>
KeySuffix == <<":", "c", "r", "e", "d", "s">>

\* One store key for all integration ids.
keyForShared(integrationId) == KeyPrefix \o KeySuffix

\* keyFor(integrationId)
keyFor(integrationId) == KeyPrefix \o integrationId \o KeySuffix

\* ------------------------------------------------------------ inputs
\* The property names of IntegrationCreds.
version == <<"v", "e", "r", "s", "i", "o", "n">>
wabaId == <<"w", "a", "b", "a", "I", "d">>
phoneNumberId == <<"p", "h", "o", "n", "e", "N", "u", "m", "b", "e", "r", "I", "d">>
token == <<"t", "o", "k", "e", "n">>
verifyToken == <<"v", "e", "r", "i", "f", "y", "T", "o", "k", "e", "n">>
displayName == <<"d", "i", "s", "p", "l", "a", "y", "N", "a", "m", "e">>

\* Credentials with every property set; the display name holds a quote and a
\* backslash.
CredsFull ==
  << <<version, <<"v", "2", "0", ".", "0">>>>, <<wabaId, <<"A", "1">>>>, <<phoneNumberId, <<"P", "1">>>>,
     <<token, <<"t", "o", "k", "1">>>>, <<verifyToken, <<"v", "t">>>>, <<displayName, <<"D", "\"", "\\">>>> >>
\* Credentials as the credentials route builds them from a body without the
\* optional properties: verifyToken and displayName hold undefined.
CredsMin ==
  << <<version, <<"v", "1", "9", ".", "0">>>>, <<wabaId, <<"A", "2">>>>, <<phoneNumberId, <<"P", "2">>>>,
     <<token, <<"t", "o", "k", "2">>>>, <<verifyToken, Undefined>>, <<displayName, Undefined>> >>
\* Credentials whose token is empty.
CredsNoToken ==
  << <<version, <<"v", "2", "0", ".", "0">>>>, <<wabaId, <<"A", "1">>>>, <<phoneNumberId, <<"P", "1">>>>,
     <<token, <<>> >> >>

Creds == {CredsFull, CredsMin, CredsNoToken}

\* The records SpecCrypto and SpecTamper encrypt.
CryptoCreds == {CredsFull, CredsMin}

\* The properties the IntegrationCreds schema requires are present and not
\* empty.
ValidCreds(creds) ==
  \A k \in {wabaId, phoneNumberId, token} :
    Get(creds, k) /= Undefined /\ Get(creds, k) /= <<>>

Ids == {<<"x">>, <<"y">>}

\* Values crypto.randomBytes(12) may give.
Ivs == {Rep(0, IvLen), [i \in 1..IvLen |-> 20 * i]}

\* The values among them that the calls of saveCreds draw; SpecCrypto draws
\* from all of Ivs.
SaveIvs == {Rep(0, IvLen)}

\* The saveCreds calls of Spec: every record for one id, one record for
\* the other.
SaveInputs ==
  {<<<<"x">>, creds>> : creds \in Creds} \cup {<<<<"y">>, CredsFull>>}

\* The integration ids of the calls of SpecFetch.
FetchIds == {<<"x">>}

\* The processes: 1 is the service of Spec; SpecCrypto has a second one.
Procs == {1, 2}

\* The process of Spec that serves the calls.
Service == {1}

\* Settings of MASTER_KEY_HEX and MASTER_KEY_ENCODING in process.env.
Env(hex, encoding) == [MASTER_KEY_HEX |-> hex, MASTER_KEY_ENCODING |-> encoding]
Base64 == <<"b", "a", "s", "e", "6", "4">>
NoEnv == Env(Undefined, Undefined)

\* Settings of the service of Spec: no key, an empty key, a key of 32 bytes,
\* one of 31 and one of 33 bytes.
SpecEnvs ==
  { NoEnv,
    Env(<<>>, Undefined),
    Env(Rep("0", 64), Undefined),
    Env(Rep("0", 62), Undefined),
    Env(Rep("0", 66), Undefined) }

\* Settings of the two processes of SpecCrypto: two hex keys, the first key
\* again in base64, and a key that is too short.
CryptoEnvs ==
  { Env(Rep("0", 64), Undefined),
    Env(Rep("a", 32) \o Rep("F", 32), Undefined),
    Env(B64Encode(Rep(0, 32)), Base64),
    Env(Rep("0", 62), Undefined) }

\* ------------------------------------------------------------ state
VARIABLES
  env,      \* process.env of each process
  module,   \* utils/crypto.ts in each process: "unloaded", "loaded", "failed"
  KEY,      \* the module's KEY in each process
  redis,    \* the key-value store: storage key -> blob
  calls,    \* the calls in flight: call number -> call
  ncalls,   \* the calls started so far
  last,     \* the call that completed last
  written,  \* history: per integration id, the credentials written, in order
  sealed,   \* SpecCrypto: the encrypt calls made, in order
  wire,     \* SpecCrypto: the blob handed to decrypt
  opened,   \* SpecCrypto: the decrypt call made last
  console,  \* the lines written with console.warn, in order
  helper    \* the call of a key helper made last

vars ==
  <<env, module, KEY, redis, calls, ncalls, last, written, sealed, wire, opened,
    console, helper>>
keyVars == <<console, helper>>
sysVars == <<redis, calls, ncalls, last, written>>
cryptoVars == <<sealed, wire, opened>>

NoCall == [op |-> "none"]
NoWire == [set |-> FALSE]
NoOpen == [set |-> FALSE]

InitCommon ==
  /\ redis = [k \in {} |-> <<>>]
  /\ calls = [n \in {} |-> NoCall]
  /\ ncalls = 0
  /\ last = NoCall
  /\ written = [id \in Ids |-> <<>>]
  /\ sealed = <<>>
  /\ wire = NoWire
  /\ opened = NoOpen
  /\ console = <<>>
  /\ helper = NoCall

\* ------------------------------------------------------------ loading the key
\* A key that is read as hex whatever the settings are.
DecodeKeyHexOnly(e) ==
  HexDecode(IF e.MASTER_KEY_HEX = Undefined THEN <<>> ELSE e.MASTER_KEY_HEX)

\* The key decoded from the environment (crypto.ts, the KEY initializer): hex
\* when MASTER_KEY_HEX is set and not empty and MASTER_KEY_ENCODING is not
\* "base64", base64 otherwise, with an unset MASTER_KEY_HEX read as "".
DecodeKey(e) ==
  IF e.MASTER_KEY_HEX /= Undefined /\ e.MASTER_KEY_HEX /= <<>>
       /\ e.MASTER_KEY_ENCODING /= Base64
    THEN HexDecode(e.MASTER_KEY_HEX)
    ELSE B64Decode(IF e.MASTER_KEY_HEX = Undefined THEN <<>> ELSE e.MASTER_KEY_HEX)

\* A length check that lets longer keys through.
KeyAcceptedAtLeast(K) == Len(K) >= KeyLen

\* if (KEY.length !== 32) throw
KeyAccepted(K) == Len(K) = KeyLen

\* What evaluating the module leaves in a process: the throw makes the import,
\* and so the start of the process, fail.
Loaded(e) == IF KeyAccepted(DecodeKey(e)) THEN "loaded" ELSE "failed"

\* The module is evaluated when the process first imports it.
LoadModule(p) ==
  /\ module[p] = "unloaded"
  /\ KEY' = [KEY EXCEPT ![p] = DecodeKey(env[p])]
  /\ module' = [module EXCEPT ![p] = Loaded(env[p])]
  /\ UNCHANGED <<env, sysVars, cryptoVars, keyVars>>

\* encrypt(obj) for the sample keys, objects and nonces, computed once.
Sealing ==
  { <<K, obj, iv, encrypt(K, obj, iv)>> :
      K \in {DecodeKey(e) : e \in SpecEnvs \cup CryptoEnvs},
      obj \in Creds, iv \in Ivs }

Encrypted(K, obj, iv) ==
  (CHOOSE t \in Sealing : t[1] = K /\ t[2] = obj /\ t[3] = iv)[4]

\* ------------------------------------------------------------ key helpers
\* A generator that gives the key in base64.
generateMasterKeyBase64(randomBytes) == B64Encode(randomBytes)

\* generateMasterKeyHex(), randomBytes being what crypto.randomBytes(32) gives.
generateMasterKeyHex(randomBytes) == HexEncode(randomBytes)

\* A validator whose $ also matches in front of a line feed that ends the
\* string.
isValidMasterKeyHexLineFeed(hexKey) ==
  /\ Len(hexKey) \in {2 * KeyLen, 2 * KeyLen + 1}
  /\ \A i \in 1..(2 * KeyLen) : IsHexChar(hexKey[i])
  /\ Len(hexKey) = 2 * KeyLen + 1 => hexKey[Len(hexKey)] = "\n"

\* /^[a-fA-F0-9]{64}$/.test(hexKey): the pattern has no m flag, so ^ and $
\* match at the start and at the end of hexKey only.
isValidMasterKeyHex(hexKey) ==
  /\ Len(hexKey) = 2 * KeyLen
  /\ \A i \in 1..Len(hexKey) : IsHexChar(hexKey[i])

\* hexKeyToBuffer(hexKey)
hexKeyToBuffer(hexKey) ==
  IF ~isValidMasterKeyHex(hexKey)
    THEN Throw("Error", "Invalid master key: must be 64 hex characters (32 bytes)")
    ELSE Ok(HexDecode(hexKey))

InvalidEnvKey == <<"I", "n", "v", "a", "l", "i", "d", " ", "M", "A", "S", "T", "E", "R", "_", "K", "E", "Y", "_", "H", "E", "X", " ", "i", "n", " ", "e", "n", "v", "i", "r", "o", "n", "m", "e", "n", "t", ":", " ", "m", "u", "s", "t", " ", "b", "e", " ", "6", "4", " ", "h", "e", "x", " ", "c", "h", "a", "r", "a", "c", "t", "e", "r", "s", " ", "(", "3", "2", " ", "b", "y", "t", "e", "s", ")">>
WarnGenerated == <<"U+26A0", "U+FE0F", " ", " ">> \o
  <<"M", "A", "S", "T", "E", "R", "_", "K", "E", "Y", "_", "H", "E", "X", " ", "n", "o", "t", " ", "s", "e", "t", " ", "i", "n", " ", "e", "n", "v", "i", "r", "o", "n", "m", "e", "n", "t", ".", " ", "G", "e", "n", "e", "r", "a", "t", "e", "d", " ", "t", "e", "m", "p", "o", "r", "a", "r", "y", " ", "k", "e", "y", ":">>
WarnAdvice == <<"U+1F512", " ">> \o
  <<"A", "d", "d", " ", "t", "h", "i", "s", " ", "t", "o", " ", "y", "o", "u", "r", " ", ".", "e", "n", "v", " ", "f", "i", "l", "e", ":", " ", "M", "A", "S", "T", "E", "R", "_", "K", "E", "Y", "_", "H", "E", "X", "=">>

\* Values crypto.randomBytes(32) may give.
RandomKeys == {Rep(0, KeyLen), Tuple([i \in 1..KeyLen |-> 7 * i])}

\* Settings of a process of SpecKey, at its start and after a change of
\* process.env: no key, an empty key, a hex key, a hex key that is too short,
\* a hex key with a line feed after it, and a base64 key.
KeyEnvs ==
  { NoEnv,
    Env(<<>>, Undefined),
    Env(Rep("0", 64), Undefined),
    Env(Rep("0", 62), Undefined),
    Env(Rep("0", 64) \o <<"\n">>, Undefined),
    Env(B64Encode(Rep(0, 32)), Base64) }

\* A change of process.env that the module's key follows at once.
SetenvRekey(p, e) ==
  /\ env[p] /= e
  /\ env' = [env EXCEPT ![p] = e]
  /\ KEY' = [KEY EXCEPT ![p] = DecodeKey(e)]
  /\ UNCHANGED <<module, sysVars, cryptoVars, keyVars>>

\* The program that hosts the module assigns process.env of process p.
Setenv(p, e) ==
  /\ env[p] /= e
  /\ env' = [env EXCEPT ![p] = e]
  /\ UNCHANGED <<module, KEY, sysVars, cryptoVars, keyVars>>

\* A getMasterKeyHex that returns the configured string without validating it.
GetMasterKeyHexNoCheck(p, randomBytes) ==
  /\ module[p] = "loaded"
  /\ LET existingKey == env[p].MASTER_KEY_HEX
         newKey == generateMasterKeyHex(randomBytes)
     IN  IF existingKey /= Undefined /\ existingKey /= <<>>
           THEN /\ helper' = [op |-> "getMasterKeyHex", proc |-> p,
                              res |-> Ok(existingKey)]
                /\ console' = console
           ELSE /\ Len(console) + 2 <= MaxLogLines
                /\ console' = console \o <<WarnGenerated \o <<" ">> \o newKey,
                                            WarnAdvice \o newKey>>
                /\ helper' = [op |-> "getMasterKeyHex", proc |-> p,
                              res |-> Ok(newKey)]
  /\ UNCHANGED <<env, module, KEY, sysVars, cryptoVars>>

\* getMasterKeyHex() in process p, which has imported the module;
\* randomBytes is what crypto.randomBytes(32) gives if it is called.
GetMasterKeyHex(p, randomBytes) ==
  /\ module[p] = "loaded"
  /\ LET existingKey == env[p].MASTER_KEY_HEX
         newKey == generateMasterKeyHex(randomBytes)
     IN  IF existingKey /= Undefined /\ existingKey /= <<>>
           THEN /\ helper' =
                     [op |-> "getMasterKeyHex", proc |-> p,
                      res |-> IF ~isValidMasterKeyHex(existingKey)
                                THEN Throw("Error", InvalidEnvKey)
                                ELSE Ok(existingKey)]
                /\ console' = console
           ELSE /\ Len(console) + 2 <= MaxLogLines
                /\ console' = console \o <<WarnGenerated \o <<" ">> \o newKey,
                                            WarnAdvice \o newKey>>
                /\ helper' = [op |-> "getMasterKeyHex", proc |-> p,
                              res |-> Ok(newKey)]
  /\ UNCHANGED <<env, module, KEY, sysVars, cryptoVars>>

InitKey ==
  /\ env \in [Procs -> KeyEnvs]
  /\ env[2] = NoEnv
  /\ module = [p \in Procs |-> "unloaded"]
  /\ KEY = [p \in Procs |-> <<>>]
  /\ InitCommon

\* The key helpers in a process whose environment can change after the
\* module was imported.
NextKey ==
  \/ \E p \in Service : LoadModule(p)
  \/ \E p \in Service, e \in KeyEnvs : Setenv(p, e)
  \/ \E p \in Service, randomBytes \in RandomKeys : GetMasterKeyHex(p, randomBytes)

SpecKey == InitKey /\ [][NextKey]_vars

\* ------------------------------------------------------------ module load alone
\* Settings of the processes of SpecLoad: those above, the 32-byte key in
\* base64 without MASTER_KEY_ENCODING, and 64 hex digits with other
\* characters or one more digit after them.
LoadEnvs ==
  SpecEnvs \cup CryptoEnvs
  \cup { Env(B64Encode(Rep(0, 32)), Undefined),
         Env(Rep("0", 64) \o <<"z", "z">>, Undefined),
         Env(Rep("0", 65), Undefined) }

InitLoad ==
  /\ env \in [Procs -> LoadEnvs]
  /\ module = [p \in Procs |-> "unloaded"]
  /\ KEY = [p \in Procs |-> <<>>]
  /\ InitCommon

\* Each process imports utils/crypto.ts once.
NextLoad == \E p \in Procs : LoadModule(p)

SpecLoad == InitLoad /\ [][NextLoad]_vars

\* ------------------------------------------------------------ encrypt and decrypt alone
\* A process that loaded the module calls encrypt(obj); iv is what
\* crypto.randomBytes(12) gives this call.
Encrypt(p, obj, iv) ==
  /\ module[p] = "loaded"
  /\ Len(sealed) < MaxEncrypts
  /\ sealed' = Append(sealed, [proc |-> p, obj |-> obj, iv |-> iv,
                               res |-> Encrypted(KEY[p], obj, iv)])
  /\ UNCHANGED <<env, module, KEY, sysVars, wire, opened, keyVars>>

\* The blob of the i-th encrypt call is handed over as it is; raw is its
\* base64 decoding.
Hand(i) ==
  /\ i \in 1..Len(sealed)
  /\ sealed[i].res.ok
  /\ wire' = [set |-> TRUE, of |-> i, b64 |-> sealed[i].res.value,
              raw |-> B64Decode(sealed[i].res.value), pos |-> 0]
  /\ opened' = NoOpen
  /\ UNCHANGED <<env, module, KEY, sysVars, sealed, keyVars>>

\* raw with d added to the byte at position pos.
Flip(raw, pos, d) == Tuple([raw EXCEPT ![pos] = (raw[pos] + d) % 256])

\* The differences a changed byte is tried with.
Deltas == {1, 255}

\* One byte of the decoded blob on the wire is changed and the bytes are
\* encoded again.
Tamper(pos, d) ==
  /\ wire.set
  /\ wire.pos = 0
  /\ pos \in 1..Len(wire.raw)
  /\ wire' = [wire EXCEPT !.b64 = B64Encode(Flip(wire.raw, pos, d)),
                          !.raw = Flip(wire.raw, pos, d),
                          !.pos = pos]
  /\ opened' = NoOpen
  /\ UNCHANGED <<env, module, KEY, sysVars, sealed, keyVars>>

\* A process that loaded the module calls decrypt on the blob on the wire.
Decrypt(q) ==
  /\ module[q] = "loaded"
  /\ wire.set
  /\ opened' = [set |-> TRUE, proc |-> q, res |-> decrypt(KEY[q], wire.b64)]
  /\ UNCHANGED <<env, module, KEY, sysVars, sealed, wire, keyVars>>

\* ------------------------------------------------------------ claims on encrypt and decrypt
\* The encrypt call whose blob is on the wire.
Source == sealed[wire.of]

\* Two processes that have imported the module.
InitLoaded ==
  /\ env \in [Procs -> CryptoEnvs]
  /\ KEY = [p \in Procs |-> DecodeKey(env[p])]
  /\ module = [p \in Procs |-> Loaded(env[p])]
  /\ InitCommon

\* The first process holds the 32-byte key of zeros; the second one holds the
\* same key, read from hex or from base64, another key, or none.
InitCrypto ==
  /\ InitLoaded
  /\ env[1] = Env(Rep("0", 64), Undefined)

\* The processes encrypt, then one of the blobs is handed to a process that
\* decrypts it.
NextCrypto ==
  \/ \E p \in Procs, obj \in CryptoCreds, iv \in Ivs :
       ~wire.set /\ Encrypt(p, obj, iv)
  \/ \E i \in 1..MaxEncrypts : Hand(i)
  \/ \E q \in Procs : Decrypt(q)

SpecCrypto == InitCrypto /\ [][NextCrypto]_vars

\* ---- the key helpers as functions
\* Strings handed to isValidMasterKeyHex and hexKeyToBuffer: 64 hex digits of
\* either case, 63 digits and a letter that is no digit, 62 digits, and
\* nothing, each with and without characters in front and behind.
HelperInputs ==
  { pre \o body \o post :
      pre \in {<<>>, <<" ">>, <<"0">>},
      body \in {Rep("0", 64), Rep("a", 32) \o Rep("F", 32),
                Rep("0", 63) \o <<"g">>, Rep("0", 62), <<>>},
      post \in {<<>>, <<"\n">>, <<" ">>, <<"0">>, <<"z", "z">>} }

\* The strings a caller has at hand: those above, and the key that
\* generateMasterKeyHex returned last.
AtHand ==
  HelperInputs
  \cup (IF helper.op = "generateMasterKeyHex" THEN {helper.res.value} ELSE {})

\* generateMasterKeyHex() in process p; randomBytes is what
\* crypto.randomBytes(32) gives.
GenerateMasterKeyHex(p, randomBytes) ==
  /\ module[p] = "loaded"
  /\ helper' = [op |-> "generateMasterKeyHex", proc |-> p, arg |-> randomBytes,
                res |-> Ok(generateMasterKeyHex(randomBytes))]
  /\ UNCHANGED <<env, module, KEY, sysVars, cryptoVars, console>>

\* isValidMasterKeyHex(hexKey) in process p.
IsValidMasterKeyHex(p, hexKey) ==
  /\ module[p] = "loaded"
  /\ helper' = [op |-> "isValidMasterKeyHex", proc |-> p, arg |-> hexKey,
                res |-> Ok(isValidMasterKeyHex(hexKey))]
  /\ UNCHANGED <<env, module, KEY, sysVars, cryptoVars, console>>

\* hexKeyToBuffer(hexKey) in process p.
HexKeyToBuffer(p, hexKey) ==
  /\ module[p] = "loaded"
  /\ helper' = [op |-> "hexKeyToBuffer", proc |-> p, arg |-> hexKey,
                res |-> hexKeyToBuffer(hexKey)]
  /\ UNCHANGED <<env, module, KEY, sysVars, cryptoVars, console>>

NextHelpers ==
  \/ \E p \in Service, randomBytes \in RandomKeys :
       GenerateMasterKeyHex(p, randomBytes)
  \/ \E p \in Service, hexKey \in AtHand : IsValidMasterKeyHex(p, hexKey)
  \/ \E p \in Service, hexKey \in AtHand : HexKeyToBuffer(p, hexKey)

SpecHelpers == InitCrypto /\ [][NextHelpers]_vars

\* ---- decrypt of short inputs
\* Inputs of fewer than 28 bytes: a blob of encrypt cut to n bytes, and a
\* nonce followed by the first n bytes of the tag that the key of process 1
\* gives for this nonce and no ciphertext.
ShortLengths == {0, 8, 12, 14, 16, 20, 24, 27}
ShortPrefixes == {4, 8}
ShortBlobs ==
  {B64Encode(SubSeq(B64Decode(Encrypted(Rep(0, KeyLen), CredsMin, Rep(0, IvLen)).value),
                    1, n)) : n \in ShortLengths}
  \cup {B64Encode(iv \o SubSeq(GcmTag(Rep(0, KeyLen), iv, <<>>), 1, n)) :
          iv \in Ivs, n \in ShortPrefixes}

\* A caller hands the string b64 to decrypt.
Offer(b64) ==
  /\ wire' = [set |-> TRUE, of |-> 0, b64 |-> b64, raw |-> B64Decode(b64), pos |-> 0]
  /\ opened' = NoOpen
  /\ UNCHANGED <<env, module, KEY, sysVars, sealed, keyVars>>

NextShort ==
  \/ \E b64 \in ShortBlobs : Offer(b64)
  \/ \E q \in Procs : Decrypt(q)

SpecShort == InitCrypto /\ [][NextShort]_vars

\* The first process encrypts once and the blob is changed in one byte before
\* either process decrypts it; the second process holds the first one's key
\* or another one.
InitTamper ==
  /\ InitLoaded
  /\ env[1] = Env(Rep("0", 64), Undefined)
  /\ env[2] \in {Env(B64Encode(Rep(0, 32)), Base64),
                 Env(Rep("a", 32) \o Rep("F", 32), Undefined)}

NextTamper ==
  \/ \E obj \in CryptoCreds, iv \in Ivs : sealed = <<>> /\ Encrypt(1, obj, iv)
  \/ Hand(1)
  \/ \E pos \in 1..(IF wire.set THEN Len(wire.raw) ELSE 0), d \in Deltas :
       Tamper(pos, d)
  \/ \E q \in Procs : Decrypt(q)

SpecTamper == InitTamper /\ [][NextTamper]_vars

\* ---- decrypt of strings that are not base64
\* The characters put into a blob: none of them is in the base64 alphabet.
InsertChars == {"!", " ", "*"}

\* s with the character c put in after its first k characters.
InsertAt(s, k, c) == SubSeq(s, 1, k) \o <<c>> \o SubSeq(s, k + 1, Len(s))

\* The places a character is put in: in front, after the first character, in
\* the middle of the tag, behind the last character.
InsertPlaces(s) == {0, 1, 20, Len(s)}

\* The blob on the wire gets one character that is not a base64 character.
Insert(k, c) ==
  /\ wire.set
  /\ wire.of \in 1..Len(sealed)
  /\ wire.b64 = Source.res.value
  /\ k \in InsertPlaces(wire.b64)
  /\ wire' = [wire EXCEPT !.b64 = InsertAt(wire.b64, k, c),
                          !.raw = B64Decode(InsertAt(wire.b64, k, c))]
  /\ opened' = NoOpen
  /\ UNCHANGED <<env, module, KEY, sysVars, sealed, keyVars>>

NextInsert ==
  \/ \E obj \in CryptoCreds, iv \in Ivs : sealed = <<>> /\ Encrypt(1, obj, iv)
  \/ Hand(1)
  \/ \E k \in 0..(IF wire.set THEN Len(wire.b64) ELSE 0), c \in InsertChars :
       Insert(k, c)
  \/ \E q \in Procs : Decrypt(q)

SpecInsert == InitTamper /\ [][NextInsert]_vars

\* ---- decrypt of every kind of input
\* decrypt is called on a blob of encrypt as it is, with one byte changed or
\* with a foreign character put in, and on short inputs.
NextOpen ==
  \/ \E obj \in CryptoCreds, iv \in Ivs : sealed = <<>> /\ Encrypt(1, obj, iv)
  \/ Hand(1)
  \/ \E pos \in 1..(IF wire.set THEN Len(wire.raw) ELSE 0), d \in Deltas :
       wire.of \in 1..Len(sealed) /\ wire.b64 = Source.res.value /\ Tamper(pos, d)
  \/ \E k \in 0..(IF wire.set THEN Len(wire.b64) ELSE 0), c \in InsertChars :
       Insert(k, c)
  \/ \E b64 \in ShortBlobs : Offer(b64)
  \/ \E q \in Procs : Decrypt(q)

SpecOpen == InitTamper /\ [][NextOpen]_vars

\* ------------------------------------------------------------ utils/wa.ts
\* redis.get(key): the value stored under key, null when there is none.
StoreGet(store, key) == IF key \in DOMAIN store THEN store[key] ELSE Null

\* A write that keeps the value already stored under key.
StoreSetIfAbsent(store, key, value) ==
  [k \in DOMAIN store \cup {key} |-> IF k \in DOMAIN store THEN store[k] ELSE value]

\* A write that is not atomic: the first half of the new value lands in
\* front of what the old value has beyond it.
StoreSetTorn(store, key, value) ==
  [k \in DOMAIN store \cup {key} |->
     IF k /= key THEN store[k]
     ELSE IF key \in DOMAIN store
       THEN SubSeq(value, 1, Len(value) \div 2)
              \o SubSeq(store[key], (Len(value) \div 2) + 1, Len(store[key]))
       ELSE value]

\* A write that reaches every key of the store.
StoreSetAll(store, key, value) == [k \in DOMAIN store \cup {key} |-> value]

\* redis.set(key, value): value replaces what was stored under key.
StoreSet(store, key, value) ==
  [k \in DOMAIN store \cup {key} |-> IF k = key THEN value ELSE store[k]]

\* getCreds after the store has answered enc: the throw of "if (!enc)" for
\* null and for the empty string, and decrypt(enc) otherwise.
getCreds(K, enc) ==
  IF enc = Null \/ enc = <<>> THEN Throw("Error", "Credentials not found")
  ELSE decrypt(K, enc)

\* `${v}` in a template literal.
Str(v) == IF v = Undefined THEN <<"u", "n", "d", "e", "f", "i", "n", "e", "d">> ELSE v

\* obj after obj[k] = v: the property keeps its place when obj has it.
SetProp(obj, k, v) ==
  IF k \in Keys(obj)
    THEN Tuple([j \in 1..Len(obj) |-> IF obj[j][1] = k THEN <<k, v>> ELSE obj[j]])
    ELSE Append(obj, <<k, v>>)

\* { ...obj, ...extra } from property i of extra on; spreading undefined adds
\* nothing.
RECURSIVE Spread(_, _, _)
Spread(obj, extra, i) ==
  IF extra = Undefined \/ i > Len(extra) THEN obj
  ELSE Spread(SetProp(obj, extra[i][1], extra[i][2]), extra, i + 1)

GraphBase == <<"h", "t", "t", "p", "s", ":", "/", "/", "g", "r", "a", "p", "h", ".", "f", "a", "c", "e", "b", "o", "o", "k", ".", "c", "o", "m", "/">>
Authorization == <<"A", "u", "t", "h", "o", "r", "i", "z", "a", "t", "i", "o", "n">>
ContentType == <<"C", "o", "n", "t", "e", "n", "t", "-", "T", "y", "p", "e">>
ApplicationJson == <<"a", "p", "p", "l", "i", "c", "a", "t", "i", "o", "n", "/", "j", "s", "o", "n">>
Bearer == <<"B", "e", "a", "r", "e", "r", " ">>

\* The headers of the upstream request: the bearer token and the content
\* type, then the caller's extra headers.
waHeaders(creds, extraHeaders) ==
  Spread(<< <<Authorization, Bearer \o Str(Get(creds, token))>>,
            <<ContentType, ApplicationJson>> >>,
         extraHeaders, 1)

\* The call of fetch that waFetch makes with the credentials getCreds gave.
waRequest(creds, path, method, body, extraHeaders) ==
  [ set |-> TRUE,
    url |-> GraphBase \o Str(Get(creds, version)) \o path,
    method |-> method,
    headers |-> waHeaders(creds, extraHeaders),
    body |-> IF body = Undefined \/ body = Null \/ body = <<>>
               THEN Undefined
               ELSE JSONStringify(body) ]

\* res.ok
ResOk(status) == status >= 200 /\ status <= 299

\* `${n}` for a number n >= 0: its decimal digits.
RECURSIVE Decimal(_)
Decimal(n) ==
  IF n < 10 THEN <<HexDigits[n + 1]>>
  ELSE Decimal(n \div 10) \o <<HexDigits[(n % 10) + 1]>>

\* An error message that leaves the response body out.
waMessageNoBody(method, url, status, text) ==
  method \o <<" ">> \o url \o <<" ", "-", ">", " ">> \o Decimal(status)

\* `${method} ${url} -> ${res.status} ${await res.text()}`
waMessage(method, url, status, text) ==
  method \o <<" ">> \o url \o <<" ", "-", ">", " ">> \o Decimal(status)
    \o <<" ">> \o text

\* What waFetch gives for the upstream response: the throw for a status that
\* is not 2xx, and res.json() otherwise.
waResult(req, resp) ==
  IF ~ResOk(resp.status)
    THEN Throw("Error", waMessage(req.method, req.url, resp.status, resp.text))
    ELSE JSONParse(resp.text)

\* ---- inputs of waFetch and answers of the upstream API
Path == <<"/", "m", "e">>
ExtraHeaders ==
  { Undefined,
    << <<ContentType, <<"m", "u", "l", "t", "i", "p", "a", "r", "t", "/", "f", "o", "r", "m", "-", "d", "a", "t", "a">>>> >>,
    << <<Authorization, Bearer \o <<"o", "t", "h", "e", "r">>>> >> }
Replies ==
  { [status |-> 200, text |-> <<"{", "}">>],
    [status |-> 401, text |-> <<"d", "e", "n", "i", "e", "d">>],
    [status |-> 500, text |-> <<>>] }

\* ---- calls
NotYet == [set |-> FALSE]

\* The completed call c with what it gave its caller.
Done(c, res) == [c EXCEPT !.pc = "done", !.res = res]

\* The calls in flight without call n.
Without(n) == [m \in DOMAIN calls \ {n} |-> calls[m]]

\* A saveCreds(id, ...) call is between its start and its return.
Saving(id) ==
  \E n \in DOMAIN calls : calls[n].op = "saveCreds" /\ calls[n].id = id

\* History kept with a read of id: how many writes of id the store had taken
\* when the call started, whether no saveCreds(id) was in flight then, and
\* whether one has started since.
ReadHistory(id) ==
  [from |-> Len(written[id]), quiet |-> ~Saving(id), disturbed |-> FALSE,
   reads |-> 0]

\* cs with the reads of id in flight marked as overlapped by a saveCreds(id).
Disturb(cs, id) ==
  [n \in DOMAIN cs |->
     IF cs[n].op \in {"getCreds", "waFetch"} /\ cs[n].id = id
       THEN [cs[n] EXCEPT !.hist.disturbed = TRUE]
       ELSE cs[n]]

\* Process p can start a call: it has imported utils/crypto.ts, and the
\* bounds on calls leave room.
CanStart(p) ==
  /\ module[p] = "loaded"
  /\ ncalls < MaxCalls
  /\ Cardinality(DOMAIN calls) < MaxInFlight

\* saveCreds(integrationId, creds) up to its await: encrypt(creds) is
\* evaluated and redis.set is called with the blob.
SaveCall(p, id, creds, iv) ==
  /\ CanStart(p)
  /\ ncalls' = ncalls + 1
  /\ LET blob == Encrypted(KEY[p], creds, iv)
         c == [op |-> "saveCreds", proc |-> p, id |-> id, creds |-> creds,
               pc |-> "set", enc |-> blob, res |-> NotYet]
     IN  IF blob.ok
           THEN /\ calls' = [n \in DOMAIN calls \cup {ncalls + 1} |->
                               IF n = ncalls + 1 THEN c ELSE Disturb(calls, id)[n]]
                /\ last' = last
           ELSE /\ calls' = calls
                /\ last' = Done(c, blob)
  /\ UNCHANGED <<env, module, KEY, redis, written, cryptoVars, keyVars>>

\* The record old with the properties that new defines set to new's values.
MergeInto(old, new) ==
  Spread(old, SelectSeq(new, LAMBDA pr : pr[2] /= Undefined), 1)

\* A write of call n that updates the stored record field by field.
RedisSetMerge(n) ==
  /\ n \in DOMAIN calls
  /\ calls[n].op = "saveCreds"
  /\ calls[n].pc = "set"
  /\ LET K == KEY[calls[n].proc]
         old == getCreds(K, StoreGet(redis, keyFor(calls[n].id)))
         new == IF old.ok THEN MergeInto(old.value, calls[n].creds) ELSE calls[n].creds
     IN  redis' = StoreSet(redis, keyFor(calls[n].id), encrypt(K, new, Rep(0, IvLen)).value)
  /\ written' = [written EXCEPT ![calls[n].id] = Append(@, calls[n].creds)]
  /\ calls' = [calls EXCEPT ![n].pc = "setReply"]
  /\ UNCHANGED <<env, module, KEY, ncalls, last, cryptoVars, keyVars>>

\* The store takes the write of call n.
RedisSet(n) ==
  /\ n \in DOMAIN calls
  /\ calls[n].op = "saveCreds"
  /\ calls[n].pc = "set"
  /\ redis' = StoreSet(redis, keyFor(calls[n].id), calls[n].enc.value)
  /\ written' = [written EXCEPT ![calls[n].id] = Append(@, calls[n].creds)]
  /\ calls' = [calls EXCEPT ![n].pc = "setReply"]
  /\ UNCHANGED <<env, module, KEY, ncalls, last, cryptoVars, keyVars>>

\* The await of redis.set ends and saveCreds returns.
SaveReturn(n) ==
  /\ n \in DOMAIN calls
  /\ calls[n].op = "saveCreds"
  /\ calls[n].pc = "setReply"
  /\ last' = Done(calls[n], Ok(Undefined))
  /\ calls' = Without(n)
  /\ UNCHANGED <<env, module, KEY, redis, ncalls, written, cryptoVars, keyVars>>

\* getCreds(integrationId) up to its await: redis.get is called.
GetCall(p, id) ==
  /\ CanStart(p)
  /\ ncalls' = ncalls + 1
  /\ calls' = [n \in DOMAIN calls \cup {ncalls + 1} |->
                 IF n = ncalls + 1
                   THEN [op |-> "getCreds", proc |-> p, id |-> id, pc |-> "get",
                         enc |-> Null, hist |-> ReadHistory(id), res |-> NotYet]
                   ELSE calls[n]]
  /\ UNCHANGED <<env, module, KEY, redis, last, written, cryptoVars, keyVars>>

\* The store answers the redis.get of call n (a getCreds call, or the
\* getCreds call inside a waFetch call).
RedisGet(n) ==
  /\ n \in DOMAIN calls
  /\ calls[n].op \in {"getCreds", "waFetch"}
  /\ calls[n].pc = "get"
  /\ calls' = [calls EXCEPT ![n].enc = StoreGet(redis, keyFor(calls[n].id)),
                            ![n].hist.reads = @ + 1,
                            ![n].pc = "getReply"]
  /\ UNCHANGED <<env, module, KEY, redis, ncalls, last, written, cryptoVars, keyVars>>

\* A getCreds that reads the store once more when decrypt has thrown.
GetReturnRetry(n) ==
  /\ n \in DOMAIN calls
  /\ calls[n].op = "getCreds"
  /\ calls[n].pc = "getReply"
  /\ LET res == getCreds(KEY[calls[n].proc], calls[n].enc)
     IN  IF ~res.ok /\ calls[n].enc /= Null /\ calls[n].hist.reads < 2
           THEN /\ calls' = [calls EXCEPT ![n].pc = "get"]
                /\ last' = last
           ELSE /\ last' = Done(calls[n], res)
                /\ calls' = Without(n)
  /\ UNCHANGED <<env, module, KEY, redis, ncalls, written, cryptoVars, keyVars>>

\* The await of redis.get ends: getCreds throws or returns decrypt(enc).
GetReturn(n) ==
  /\ n \in DOMAIN calls
  /\ calls[n].op = "getCreds"
  /\ calls[n].pc = "getReply"
  /\ last' = Done(calls[n], getCreds(KEY[calls[n].proc], calls[n].enc))
  /\ calls' = Without(n)
  /\ UNCHANGED <<env, module, KEY, redis, ncalls, written, cryptoVars, keyVars>>

\* waFetch(integrationId, path, method, body, extraHeaders) up to the await
\* of its getCreds call.
WaFetchCall(p, id, extraHeaders) ==
  /\ CanStart(p)
  /\ ncalls' = ncalls + 1
  /\ calls' = [n \in DOMAIN calls \cup {ncalls + 1} |->
                 IF n = ncalls + 1
                   THEN [op |-> "waFetch", proc |-> p, id |-> id, path |-> Path,
                         method |-> <<"G", "E", "T">>, body |-> Undefined,
                         extraHeaders |-> extraHeaders, pc |-> "get",
                         enc |-> Null, hist |-> ReadHistory(id), got |-> NotYet,
                         req |-> NotYet, resp |-> NotYet, res |-> NotYet]
                   ELSE calls[n]]
  /\ UNCHANGED <<env, module, KEY, redis, last, written, cryptoVars, keyVars>>

\* A waFetch that removes a record from the store when it cannot read it.
WaFetchSendEvict(n) ==
  /\ n \in DOMAIN calls
  /\ calls[n].op = "waFetch"
  /\ calls[n].pc = "getReply"
  /\ LET c == calls[n]
         got == getCreds(KEY[c.proc], c.enc)
     IN  IF got.ok
           THEN /\ calls' = [calls EXCEPT
                               ![n].got = [set |-> TRUE, res |-> got],
                               ![n].req = waRequest(got.value, c.path, c.method,
                                                    c.body, c.extraHeaders),
                               ![n].pc = "fetch"]
                /\ last' = last
                /\ redis' = redis
           ELSE /\ calls' = Without(n)
                /\ last' = Done([c EXCEPT !.got = [set |-> TRUE, res |-> got]], got)
                /\ redis' = [k \in DOMAIN redis \ {keyFor(c.id)} |-> redis[k]]
  /\ UNCHANGED <<env, module, KEY, ncalls, written, cryptoVars, keyVars>>

\* getCreds returns to waFetch: a throw ends waFetch, credentials make it
\* call fetch.
WaFetchSend(n) ==
  /\ n \in DOMAIN calls
  /\ calls[n].op = "waFetch"
  /\ calls[n].pc = "getReply"
  /\ LET c == calls[n]
         got == getCreds(KEY[c.proc], c.enc)
     IN  IF got.ok
           THEN /\ calls' = [calls EXCEPT
                               ![n].got = [set |-> TRUE, res |-> got],
                               ![n].req = waRequest(got.value, c.path, c.method,
                                                    c.body, c.extraHeaders),
                               ![n].pc = "fetch"]
                /\ last' = last
           ELSE /\ calls' = Without(n)
                /\ last' = Done([c EXCEPT !.got = [set |-> TRUE, res |-> got]], got)
  /\ UNCHANGED <<env, module, KEY, redis, ncalls, written, cryptoVars, keyVars>>

\* The upstream API answers the fetch of call n.
FetchReply(n, reply) ==
  /\ n \in DOMAIN calls
  /\ calls[n].op = "waFetch"
  /\ calls[n].pc = "fetch"
  /\ calls' = [calls EXCEPT ![n].resp = [set |-> TRUE, status |-> reply.status,
                                         text |-> reply.text],
                            ![n].pc = "fetchReply"]
  /\ UNCHANGED <<env, module, KEY, redis, ncalls, last, written, cryptoVars, keyVars>>

\* The await of fetch ends: waFetch throws or returns the parsed body.
WaFetchReturn(n) ==
  /\ n \in DOMAIN calls
  /\ calls[n].op = "waFetch"
  /\ calls[n].pc = "fetchReply"
  /\ last' = Done(calls[n], waResult(calls[n].req, calls[n].resp))
  /\ calls' = Without(n)
  /\ UNCHANGED <<env, module, KEY, redis, ncalls, written, cryptoVars, keyVars>>

\* ---- the store with blobs that do not decrypt
\* The blob with a bit of its last byte changed, and the blob cut short by
\* three bytes.
DamageKinds == {"flip", "cut"}
Damaged(blob, kind) ==
  LET raw == B64Decode(blob)
  IN  IF kind = "flip" THEN B64Encode(Flip(raw, Len(raw), 1))
      ELSE B64Encode(SubSeq(raw, 1, Len(raw) - 3))

\* The key and blob pairs of the encrypt calls that returned a blob.
SealedPairs == {<<t[1], t[4].value>> : t \in {u \in Sealing : u[4].ok}}

\* The value stored for id, a blob as encrypt returned it, is damaged in the
\* store.
Corrupt(id, kind) ==
  /\ keyFor(id) \in DOMAIN redis
  /\ \E p \in Procs : <<KEY[p], redis[keyFor(id)]>> \in SealedPairs
  /\ redis' = [redis EXCEPT ![keyFor(id)] = Damaged(@, kind)]
  /\ UNCHANGED <<env, module, KEY, calls, ncalls, last, written, cryptoVars, keyVars>>

\* The saveCreds calls of SpecCorrupt: the service and the process with the
\* other key write the same id.
CorruptSaves == { <<1, <<"x">>, CredsFull>>, <<2, <<"x">>, CredsFull>> }

\* Two processes that have imported the module with different keys; the
\* store holds a record of "y" that the service wrote in an earlier run.
InitCorrupt ==
  /\ env = <<Env(Rep("0", 64), Undefined),
             Env(Rep("a", 32) \o Rep("F", 32), Undefined)>>
  /\ KEY = [p \in Procs |-> DecodeKey(env[p])]
  /\ module = [p \in Procs |-> Loaded(env[p])]
  /\ redis = [k \in {keyFor(<<"y">>)} |->
                Encrypted(DecodeKey(env[1]), CredsMin, Rep(0, IvLen)).value]
  /\ written = [id \in Ids |-> IF id = <<"y">> THEN <<CredsMin>> ELSE <<>>]
  /\ calls = [n \in {} |-> NoCall]
  /\ ncalls = 0
  /\ last = NoCall
  /\ sealed = <<>>
  /\ wire = NoWire
  /\ opened = NoOpen
  /\ console = <<>>
  /\ helper = NoCall

\* The store shared by the service and a process with another key, with
\* values that get damaged in the store.
NextCorrupt ==
  \/ \E args \in CorruptSaves, iv \in SaveIvs :
       ncalls < MaxCorruptCalls /\ SaveCall(args[1], args[2], args[3], iv)
  \/ \E n \in 1..MaxCalls : RedisSet(n)
  \/ \E n \in 1..MaxCalls : SaveReturn(n)
  \/ \E id \in Ids, kind \in DamageKinds : Corrupt(id, kind)
  \/ \E p \in Service, id \in Ids :
       ncalls < MaxCorruptCalls /\ GetCall(p, id)
  \/ \E n \in 1..MaxCalls : RedisGet(n)
  \/ \E n \in 1..MaxCalls : GetReturn(n)

SpecCorrupt == InitCorrupt /\ [][NextCorrupt]_vars

\* The service before it has imported utils/crypto.ts; the second process
\* takes no part.
\* ---- reads next to writes
\* The service and a process with another key read the store through getCreds
\* and waFetch while the service saves a record.
NextRead ==
  \/ \E p \in Service, iv \in SaveIvs :
       ncalls < MaxReadCalls /\ SaveCall(p, <<"x">>, CredsFull, iv)
  \/ \E n \in 1..MaxCalls : RedisSet(n)
  \/ \E n \in 1..MaxCalls : SaveReturn(n)
  \/ \E p \in Procs, id \in Ids :
       ncalls < MaxReadCalls /\ GetCall(p, id)
  \/ \E p \in Procs, id \in Ids :
       ncalls < MaxReadCalls /\ WaFetchCall(p, id, Undefined)
  \/ \E n \in 1..MaxCalls : RedisGet(n)
  \/ \E n \in 1..MaxCalls : GetReturn(n)
  \/ \E n \in 1..MaxCalls : WaFetchSend(n)
  \/ \E n \in 1..MaxCalls, reply \in Replies : FetchReply(n, reply)
  \/ \E n \in 1..MaxCalls : WaFetchReturn(n)

SpecRead == InitCorrupt /\ [][NextRead]_vars

\* ---- one process lifetime
\* What process.env holds after a change: the key of the start, another key,
\* no key.
LifeEnvs ==
  { Env(Rep("0", 64), Undefined),
    Env(Rep("a", 32) \o Rep("F", 32), Undefined),
    NoEnv }

LifeRandom == {Tuple([i \in 1..KeyLen |-> 7 * i])}

\* The service starts with the key it had before; the store holds a record
\* it saved under this key in an earlier run.
InitLife ==
  /\ env = [p \in Procs |-> IF p \in Service THEN Env(Rep("0", 64), Undefined)
                                             ELSE NoEnv]
  /\ module = [p \in Procs |-> "unloaded"]
  /\ KEY = [p \in Procs |-> <<>>]
  /\ redis = [k \in {keyFor(<<"x">>)} |->
                Encrypted(Rep(0, KeyLen), CredsMin, Rep(0, IvLen)).value]
  /\ written = [id \in Ids |-> IF id = <<"x">> THEN <<CredsMin>> ELSE <<>>]
  /\ calls = [n \in {} |-> NoCall]
  /\ ncalls = 0
  /\ last = NoCall
  /\ sealed = <<>>
  /\ wire = NoWire
  /\ opened = NoOpen
  /\ console = <<>>
  /\ helper = NoCall

\* The service imports the module, then saves and reads credentials, forwards
\* requests and calls the key helpers while its environment changes after the
\* import.
NextLife ==
  \/ \E p \in Service : LoadModule(p)
  \/ \E p \in Service, e \in LifeEnvs : module[p] = "loaded" /\ Setenv(p, e)
  \/ \E p \in Service, randomBytes \in LifeRandom : GetMasterKeyHex(p, randomBytes)
  \/ \E p \in Service, id \in FetchIds, iv \in SaveIvs :
       ncalls < MaxLifeCalls /\ SaveCall(p, id, CredsFull, iv)
  \/ \E n \in 1..MaxCalls : RedisSet(n)
  \/ \E n \in 1..MaxCalls : SaveReturn(n)
  \/ \E p \in Service, id \in FetchIds :
       ncalls < MaxLifeCalls /\ GetCall(p, id)
  \/ \E p \in Service, id \in FetchIds :
       ncalls < MaxLifeCalls /\ WaFetchCall(p, id, Undefined)
  \/ \E n \in 1..MaxCalls : RedisGet(n)
  \/ \E n \in 1..MaxCalls : GetReturn(n)
  \/ \E n \in 1..MaxCalls : WaFetchSend(n)
  \/ \E n \in 1..MaxCalls, reply \in Replies : FetchReply(n, reply)
  \/ \E n \in 1..MaxCalls : WaFetchReturn(n)

SpecLife == InitLife /\ [][NextLife]_vars

Init ==
  /\ env \in [Procs -> SpecEnvs]
  /\ env[2] = NoEnv
  /\ module = [p \in Procs |-> "unloaded"]
  /\ KEY = [p \in Procs |-> <<>>]
  /\ InitCommon

\* The credential store: saveCreds and getCreds calls of the service.
Next ==
  \/ \E p \in Service : LoadModule(p)
  \/ \E p \in Service, args \in SaveInputs, iv \in SaveIvs :
       SaveCall(p, args[1], args[2], iv)
  \/ \E n \in 1..MaxCalls : RedisSet(n)
  \/ \E n \in 1..MaxCalls : SaveReturn(n)
  \/ \E p \in Service, id \in Ids : GetCall(p, id)
  \/ \E n \in 1..MaxCalls : RedisGet(n)
  \/ \E n \in 1..MaxCalls : GetReturn(n)

Spec == Init /\ [][Next]_vars

\* The forwarder: waFetch calls of the service next to saveCreds calls.
NextFetch ==
  \/ \E p \in Service : LoadModule(p)
  \/ \E p \in Service, id \in FetchIds, creds \in Creds, iv \in SaveIvs :
       ncalls < MaxFetchCalls /\ SaveCall(p, id, creds, iv)
  \/ \E n \in 1..MaxCalls : RedisSet(n)
  \/ \E n \in 1..MaxCalls : SaveReturn(n)
  \/ \E p \in Service, id \in FetchIds, extraHeaders \in ExtraHeaders :
       ncalls < MaxFetchCalls /\ WaFetchCall(p, id, extraHeaders)
  \/ \E n \in 1..MaxCalls : RedisGet(n)
  \/ \E n \in 1..MaxCalls : WaFetchSend(n)
  \/ \E n \in 1..MaxCalls, reply \in Replies : FetchReply(n, reply)
  \/ \E n \in 1..MaxCalls : WaFetchReturn(n)

SpecFetch == Init /\ [][NextFetch]_vars

\* C1. Round trip: a blob handed over unchanged to a process that holds the
\* key of the process that encrypted it (the same process or another one)
\* decrypts to an object equal to the one encrypted.
C1_RoundTrip ==
  (opened.set /\ wire.pos = 0 /\ KEY[opened.proc] = KEY[Source.proc])
    => (opened.res.ok /\ SameObject(opened.res.value, Source.obj))

\* A record whose optional properties are absent, encrypted by one process
\* and decrypted by the other, which read the same key from another setting.
C1_Witness ==
  /\ opened.set
  /\ opened.res.ok
  /\ opened.proc /= Source.proc
  /\ env[opened.proc] /= env[Source.proc]
  /\ Source.obj = CredsMin

\* C2. Tamper detection: decrypt of a blob of which one decoded byte was
\* changed throws, and whatever decrypt returns is the object encrypted.
C2_TamperDetected ==
  opened.set =>
    /\ wire.pos > 0 => ~opened.res.ok
    /\ opened.res.ok => SameObject(opened.res.value, Source.obj)

\* A byte of the ciphertext was changed and the process that holds the key
\* of the blob has called decrypt.
C2_Witness ==
  /\ opened.set
  /\ wire.pos > TagEnd
  /\ KEY[opened.proc] = KEY[Source.proc]
  /\ ~opened.res.ok

\* C3 as claimed. No two encrypt calls of a process use the same nonce, so
\* encrypting the same record twice yields two different blobs.
C3_NonceNeverReused ==
  \A i, j \in 1..Len(sealed) :
    (i < j /\ sealed[i].proc = sealed[j].proc) =>
      /\ sealed[i].iv /= sealed[j].iv
      /\ sealed[i].obj = sealed[j].obj => sealed[i].res /= sealed[j].res

\* C3 as amended. The nonce is drawn at random in every call and may repeat:
\* two encrypt calls of a process for the same record yield different blobs
\* exactly when their nonces differ, and each blob decrypts to the record
\* under the key it was encrypted with.
C3_FreshNonceFreshBlob ==
  /\ \A i, j \in 1..Len(sealed) :
       (i < j /\ sealed[i].proc = sealed[j].proc /\ sealed[i].obj = sealed[j].obj)
         => ((sealed[i].res /= sealed[j].res) <=> (sealed[i].iv /= sealed[j].iv))
  /\ (opened.set /\ KEY[opened.proc] = KEY[Source.proc])
       => (opened.res.ok /\ SameObject(opened.res.value, Source.obj))

\* One process encrypted the same record twice with two nonces, and the
\* second blob was decrypted.
C3_Witness ==
  /\ Len(sealed) = 2
  /\ sealed[1].proc = sealed[2].proc
  /\ sealed[1].obj = sealed[2].obj
  /\ sealed[1].iv /= sealed[2].iv
  /\ sealed[1].res /= sealed[2].res
  /\ opened.set
  /\ wire.of = 2
  /\ opened.res.ok


\* ------------------------------------------------------------ claims on the credential store
\* A getCreds call has returned or thrown.
GotDone == last.op = "getCreds" /\ last.pc = "done"

\* The getCreds call that completed last ran with the writes of its id at
\* rest: every saveCreds of the id that started before it had returned when
\* it started, and none has started since.
AtRest == last.hist.quiet /\ ~last.hist.disturbed

\* Call c runs in a process that imported the module with a 32-byte key.
InLoaded(c) == module[c.proc] = "loaded" /\ Len(KEY[c.proc]) = KeyLen

\* C4: importing the encryption module fails exactly when the decoded master
\* key is not 32 bytes long (unset, empty, 31 bytes, 33 bytes) and succeeds
\* when it is; every saveCreds and getCreds call, and so every encrypt and
\* decrypt, runs in a process whose key is 32 bytes long.
C4_KeyLength ==
  /\ \A p \in Procs :
       /\ module[p] = "loaded" => KEY[p] = DecodeKey(env[p]) /\ Len(KEY[p]) = KeyLen
       /\ module[p] = "failed" => Len(DecodeKey(env[p])) /= KeyLen
  /\ \A n \in DOMAIN calls : InLoaded(calls[n])
  /\ last.op /= "none" => InLoaded(last)

\* A 33-byte key was refused, and nothing has run.
C4_Witness ==
  /\ module[1] = "failed"
  /\ Len(DecodeKey(env[1])) = KeyLen + 1
  /\ DOMAIN calls = {}
  /\ last.op = "none"

\* C5: a getCreds(id) that runs after saveCreds(id, r) has returned, with no
\* other saveCreds(id) between the two, returns a record equal to r, for
\* every valid r. Equal is equal property by property, a property that is
\* undefined counting as absent.
C5_SaveThenGet ==
  (/\ GotDone
   /\ AtRest
   /\ last.hist.from >= 1
   /\ ValidCreds(written[last.id][last.hist.from]))
  => /\ last.res.ok
     /\ SameObject(last.res.value, written[last.id][last.hist.from])

\* getCreds returned the record without its optional properties, after the
\* other id was written too.
C5_Witness ==
  /\ GotDone
  /\ AtRest
  /\ last.hist.from = 1
  /\ written[last.id] = <<CredsMin>>
  /\ \E id \in Ids \ {last.id} : Len(written[id]) = 1
  /\ last.res.ok
  /\ Keys(last.res.value) = {version, wabaId, phoneNumberId, token}

\* C6: after saveCreds(id, r1) and then saveCreds(id, r2), getCreds(id)
\* returns exactly r2: every property it returns is one r2 defines, with
\* r2's value, so that no property of r1 that r2 lacks survives.
C6_OverwriteNotMerge ==
  (/\ GotDone
   /\ AtRest
   /\ last.hist.from >= 2)
  => /\ last.res.ok
     /\ SameObject(last.res.value, written[last.id][last.hist.from])
     /\ \A k \in Keys(last.res.value) :
          Get(written[last.id][last.hist.from], k) /= Undefined

\* The record with verifyToken and displayName was overwritten by the one
\* without them, and getCreds returned neither.
C6_Witness ==
  /\ GotDone
  /\ AtRest
  /\ written[last.id] = <<CredsFull, CredsMin>>
  /\ last.res.ok
  /\ Get(last.res.value, verifyToken) = Undefined
  /\ Get(last.res.value, displayName) = Undefined

\* A blob of the store with one bit of its ciphertext changed.
Undecryptable(K) ==
  LET raw == B64Decode(Encrypted(K, CredsFull, Rep(0, IvLen)).value)
  IN  B64Encode([raw EXCEPT ![Len(raw)] = (@ + 1) % 256])

\* C7: getCreds(id) for an id that was never saved fails, and the kind of
\* the failure (the class of what is thrown) differs from the kind of the
\* failure for a stored blob that cannot be decrypted.
C7_NotFoundDistinctKind ==
  (/\ GotDone
   /\ AtRest
   /\ last.hist.from = 0)
  => /\ ~last.res.ok
     /\ last.res.name /= getCreds(KEY[last.proc], Undecryptable(KEY[last.proc])).name

\* Call c, if it is a saveCreds call with an invalid record, has failed with
\* a ValidationError.
Gated(c) ==
  (c.op = "saveCreds" /\ ~ValidCreds(c.creds))
  => c.pc = "done" /\ ~c.res.ok /\ c.res.name = "ValidationError"

\* C8: a saveCreds call with a record whose wabaId, phoneNumberId or token
\* is missing or empty fails with a ValidationError and writes nothing:
\* such a call is never waiting for the store, it completes as a failure,
\* and no such record is among the writes the store took.
C8_ValidationGate ==
  /\ \A n \in DOMAIN calls : Gated(calls[n])
  /\ last.op /= "none" => Gated(last)
  /\ \A id \in Ids : \A k \in 1..Len(written[id]) : ValidCreds(written[id][k])

\* C9: a getCreds(id) that starts when the store has taken writes of id,
\* the writes of all saveCreds(id) that have returned among them, returns
\* the record of the last of these writes or of a later one, never of an
\* earlier one.
C9_NoStaleRead ==
  (GotDone /\ last.hist.from >= 1)
  => /\ last.res.ok
     /\ \E k \in last.hist.from..Len(written[last.id]) :
          SameObject(last.res.value, written[last.id][k])

\* getCreds started after the first of two different writes and returned
\* the record of the second.
C9_Witness ==
  /\ GotDone
  /\ last.hist.from = 1
  /\ Len(written[last.id]) = 2
  /\ ~SameObject(written[last.id][1], written[last.id][2])
  /\ last.res.ok
  /\ SameObject(last.res.value, written[last.id][2])

\* ------------------------------------------------------------ claims on the forwarder
\* Call c, if it is a waFetch call: its call of fetch came after its getCreds
\* gave credentials and carries their version and token, and there is none
\* when its getCreds threw.
Forwarded(c) ==
  c.op = "waFetch" =>
    /\ c.req.set =>
         /\ c.got.set
         /\ c.got.res.ok
         /\ c.req.url = GraphBase \o Get(c.got.res.value, version) \o c.path
         /\ Get(c.req.headers, Authorization) = Bearer \o Get(c.got.res.value, token)
    /\ (c.got.set /\ ~c.got.res.ok) => ~c.req.set

\* C10: every call of fetch that waFetch makes comes after the getCreds of
\* the same waFetch call returned credentials, its URL holds the version
\* and its Authorization header the token of these credentials; a waFetch
\* whose getCreds threw makes no call of fetch.
C10_ForwarderOrdering ==
  /\ \A n \in DOMAIN calls : Forwarded(calls[n])
  /\ last.op /= "none" => Forwarded(last)

\* s ends with t.
EndsWith(s, t) ==
  Len(s) >= Len(t) /\ SubSeq(s, Len(s) - Len(t) + 1, Len(s)) = t

\* A waFetch call whose upstream call was answered has returned or thrown.
FetchDone == last.op = "waFetch" /\ last.pc = "done" /\ last.resp.set

\* C11: when the upstream response has a status outside 200..299, waFetch
\* throws, and the message of what it throws ends with the status and the
\* response body; it returns no value.
C11_UpstreamFailureSurfaced ==
  (FetchDone /\ (last.resp.status < 200 \/ last.resp.status > 299))
  => /\ ~last.res.ok
     /\ EndsWith(last.res.message,
                 Decimal(last.resp.status) \o <<" ">> \o last.resp.text)

\* The upstream API answered 401 with a body, and waFetch threw.
C11_Witness ==
  /\ FetchDone
  /\ last.resp.status = 401
  /\ last.resp.text /= <<>>
  /\ ~last.res.ok

\* ------------------------------------------------------------ claims on isolation and races
\* C12: the storage keys of different integration ids are different, and
\* in every step the blob stored for an id stays as it is unless the store
\* takes a write of a saveCreds call for that same id; so what getCreds(b)
\* decrypts is the same before and after a saveCreds(a, r), a /= b, under
\* every interleaving.
C12_TenantIsolation ==
  [][/\ \A a \in Ids, b \in Ids : a /= b => keyFor(a) /= keyFor(b)
     /\ \A b \in Ids :
          written'[b] = written[b]
          => StoreGet(redis', keyFor(b)) = StoreGet(redis, keyFor(b))]_vars

\* getCreds("y") returned the record of "y" while "x" holds another one.
C12_Witness ==
  /\ GotDone
  /\ last.id = <<"y">>
  /\ last.res.ok
  /\ written[<<"x">>] = <<CredsMin>>
  /\ written[<<"y">>] = <<CredsFull>>
  /\ SameObject(last.res.value, CredsFull)

\* C13: under every interleaving of saveCreds and getCreds calls for one
\* id, a getCreds call either throws "Credentials not found", having read
\* the store before any write of the id, or returns one whole record among
\* those written to the id; and when no saveCreds of the id is in flight the
\* store holds the blob of the record whose write it took last.
C13_SameIdRace ==
  /\ GotDone =>
        IF last.res.ok
          THEN \E k \in 1..Len(written[last.id]) :
                 SameObject(last.res.value, written[last.id][k])
          ELSE /\ last.res.message = "Credentials not found"
               /\ last.enc = Null
               /\ last.hist.from = 0
  /\ \A id \in Ids :
       (Len(written[id]) >= 1 /\ ~Saving(id))
       => \E p \in Service, iv \in SaveIvs :
            StoreGet(redis, keyFor(id))
              = Encrypted(KEY[p], written[id][Len(written[id])], iv).value

\* getCreds started before the first of two different writes, read the
\* store between them, and returned the record of the first.
C13_Witness ==
  /\ GotDone
  /\ last.hist.from = 0
  /\ Len(written[last.id]) = 2
  /\ ~SameObject(written[last.id][1], written[last.id][2])
  /\ last.res.ok
  /\ SameObject(last.res.value, written[last.id][1])

\* ------------------------------------------------------------ claims on what the store holds
\* t occurs in s as a run of consecutive elements.
Contains(s, t) ==
  \E i \in 0..(Len(s) - Len(t)) : SubSeq(s, i + 1, i + Len(t)) = t

\* The blob shows the token or the serialized form of the record obj,
\* as text or in the bytes it encodes.
Shows(blob, obj) ==
  LET raw == B64Decode(blob)
      tok == Get(obj, token)
  IN  \/ Contains(raw, Utf8Encode(JSONStringify(obj)))
      \/ /\ tok /= Undefined
         /\ tok /= <<>>
         /\ Contains(blob, tok) \/ Contains(raw, Utf8Encode(tok))

\* The key and blob pairs of the encrypt calls whose blob does not show
\* what was encrypted.
SealedOpaque ==
  {<<t[1], t[4].value>> : t \in {u \in Sealing : u[4].ok /\ ~Shows(u[4].value, u[2])}}

\* C14: every key of the store is the credentials key of an integration id,
\* and the value under it is a blob that encrypt returned under the
\* service's key, in which neither the serialized record nor the token can
\* be read.
C14_EncryptedAtRest ==
  \A k \in DOMAIN redis :
    /\ k \in {keyFor(id) : id \in Ids}
    /\ \E p \in Service : <<KEY[p], redis[k]>> \in SealedOpaque

\* Both ids have a blob in the store, the one of "x" written twice.
C14_Witness ==
  /\ DOMAIN redis = {keyFor(id) : id \in Ids}
  /\ Len(written[<<"x">>]) = 2
  /\ written[<<"x">>][2] = CredsFull

KeysKnown ==
  {env[p].MASTER_KEY_HEX :
     p \in {q \in Procs : env[q].MASTER_KEY_HEX /= Undefined
                           /\ env[q].MASTER_KEY_HEX /= <<>>}}
  \cup {HexEncode(KEY[p]) : p \in {q \in Procs : module[q] = "loaded"}}
  \cup (IF helper.op /= "none" /\ helper.res.ok THEN {helper.res.value} ELSE {})

\* C16, for the key helpers: no line written to the console and no message
\* of an error they throw contains a master key, configured, loaded or
\* generated.
C16_NoSecretInOutput ==
  \A k \in KeysKnown :
    /\ \A i \in 1..Len(console) : ~Contains(console[i], k)
    /\ (helper.op /= "none" /\ ~helper.res.ok) => ~Contains(helper.res.message, k)

\* ------------------------------------------------------------ claims on stored records and failures of decrypt
\* C17: every blob in the store decrypts, under the service's key, to a
\* record whose wabaId, phoneNumberId and token are all there and not empty.
C17_StoredRecordValid ==
  \A k \in DOMAIN redis : \A p \in Service :
    module[p] = "loaded" =>
      /\ decrypt(KEY[p], redis[k]).ok
      /\ ValidCreds(decrypt(KEY[p], redis[k]).value)

C19_WrongKey ==
  (opened.set /\ wire.pos = 0 /\ KEY[opened.proc] /= KEY[Source.proc])
  => /\ ~opened.res.ok
     /\ opened.res.name = "Error"
     /\ opened.res.message = "Unsupported state or unable to authenticate data"

\* The process with the other key has called decrypt on the untouched blob.
C19_Witness ==
  /\ opened.set
  /\ wire.pos = 0
  /\ Len(KEY[opened.proc]) = KeyLen
  /\ KEY[opened.proc] /= KEY[Source.proc]
  /\ ~opened.res.ok

\* C20: decrypt of an input that decodes to fewer than 28 bytes throws, and
\* it throws before the plaintext is parsed: the tag such an input holds,
\* shorter than 16 bytes, does not pass the tag check.
C20_ShortBlobRejected ==
  (opened.set /\ Len(wire.raw) < TagEnd)
  => /\ ~opened.res.ok
     /\ opened.res.name /= "SyntaxError"

\* A string is base64 when it holds characters of the base64 alphabet only,
\* in groups of four, the last group ending with at most two "=".
IsBase64(s) ==
  /\ Len(s) % 4 = 0
  /\ \A i \in 1..Len(s) :
       \/ s[i] \in {B64Chars[n] : n \in 1..64}
       \/ s[i] = "=" /\ i >= Len(s) - 1 /\ \A j \in i..Len(s) : s[j] = "="

\* C21: decrypt of a string that is not base64 throws; a blob of encrypt
\* with a character outside the base64 alphabet put in is not decrypted.
C21_InvalidBase64Rejected ==
  (opened.set /\ ~IsBase64(wire.b64)) => ~opened.res.ok

\* The result of a decrypt call that threw holds nothing of the decrypted
\* bytes: it is one of the cipher's errors, or the SyntaxError for a text
\* that ended, none of which names a character of the text.
TellsNothing(res) ==
  /\ DOMAIN res = {"ok", "name", "message"}
  /\ IF res.name = "SyntaxError"
       THEN res.message = <<"Unexpected end of JSON input">>
       ELSE res.message \in {"Invalid initialization vector",
                              "Invalid authentication tag length",
                              "Unsupported state or unable to authenticate data"}

\* C22: a decrypt call either returns a record equal to the one that was
\* encrypted into the blob it was given, or throws an error that holds no
\* part of the decrypted bytes; and the call changes nothing a later call
\* could read: the key, the store, the blobs and the console stay as they are.
C22_AllOrNothing ==
  [][(opened'.set /\ opened' /= opened)
     => /\ UNCHANGED <<env, module, KEY, sysVars, sealed, wire, keyVars>>
        /\ IF opened'.res.ok
             THEN /\ wire.of \in 1..Len(sealed)
                  /\ SameObject(opened'.res.value, Source.obj)
             ELSE TellsNothing(opened'.res)]_vars

\* decrypt threw while parsing: the tag of the input was accepted and the
\* decrypted bytes are no JSON text.
C22_Witness ==
  /\ opened.set
  /\ ~opened.res.ok
  /\ opened.res.name = "SyntaxError"
  /\ TellsNothing(opened.res)

\* C23: a blob returned by encrypt decodes to the 12 bytes of the nonce,
\* then the 16 bytes of the tag, then the ciphertext, 28 bytes and as many as
\* the serialized record has in all; and decrypt, in a process that holds the
\* same key, takes the nonce, the tag and the ciphertext from these places
\* and returns what the ciphertext after byte 28 decrypts to under the nonce
\* of the first 12 bytes.
C23_BlobLayout ==
  /\ \A i \in 1..Len(sealed) :
       sealed[i].res.ok =>
         LET raw == B64Decode(sealed[i].res.value)
             K == KEY[sealed[i].proc]
             plain == Utf8Encode(JSONStringify(sealed[i].obj))
         IN  /\ Len(raw) = TagEnd + Len(plain)
             /\ SubSeq(raw, 1, IvLen) = sealed[i].iv
             /\ SubSeq(raw, TagEnd + 1, Len(raw)) = GcmEncrypt(K, sealed[i].iv, plain)
             /\ SubSeq(raw, IvLen + 1, TagEnd)
                  = GcmTag(K, sealed[i].iv, SubSeq(raw, TagEnd + 1, Len(raw)))
  /\ (opened.set /\ wire.pos = 0 /\ KEY[opened.proc] = KEY[Source.proc])
       => /\ opened.res.ok
          /\ opened.res
               = JSONParse(Utf8Decode(GcmDecrypt(KEY[opened.proc],
                                                 SubSeq(wire.raw, 1, IvLen),
                                                 SubSeq(wire.raw, TagEnd + 1,
                                                        Len(wire.raw)))))

\* A blob of the second nonce, 28 bytes longer than its record's text, was
\* decrypted by the process that made it.
C23_Witness ==
  /\ opened.set
  /\ wire.pos = 0
  /\ opened.proc = Source.proc
  /\ opened.res.ok
  /\ Source.iv /= Rep(0, IvLen)
  /\ Len(wire.raw) = TagEnd + Len(JSONStringify(Source.obj))

\* C24: once the module has loaded in a process, no step changes its key,
\* whatever the process's environment becomes and whichever calls are made or
\* in flight; and every blob in the store decrypts under the key of the
\* service that has loaded the module.
C24_KeyReadOnly ==
  [][/\ \A p \in Procs :
          module[p] = "loaded" => (module'[p] = "loaded" /\ KEY'[p] = KEY[p])
     /\ \A p \in Service, k \in DOMAIN redis' :
          module'[p] = "loaded" => decrypt(KEY'[p], redis'[k]).ok]_vars

\* The environment names another key than the one loaded, getMasterKeyHex
\* returned that other setting, and the record saved is in the store under
\* the key loaded at the start.
C24_Witness ==
  /\ module[1] = "loaded"
  /\ KEY[1] = Rep(0, KeyLen)
  /\ env[1] = Env(Rep("a", 32) \o Rep("F", 32), Undefined)
  /\ helper.op = "getMasterKeyHex"
  /\ helper.res.ok
  /\ helper.res.value = Rep("a", 32) \o Rep("F", 32)
  /\ written[<<"x">>] = <<CredsMin, CredsFull>>
  /\ last.op = "saveCreds"
  /\ decrypt(KEY[1], StoreGet(redis, keyFor(<<"x">>))).ok

\* A process reads its key as hex: MASTER_KEY_HEX is set and not empty and
\* MASTER_KEY_ENCODING is not "base64".
HexMode(e) ==
  /\ e.MASTER_KEY_HEX /= Undefined
  /\ e.MASTER_KEY_HEX /= <<>>
  /\ e.MASTER_KEY_ENCODING /= Base64

\* C25: in hex mode the module loads only when MASTER_KEY_HEX is a string
\* that isValidMasterKeyHex accepts, exactly 64 hexadecimal characters.
C25_HexLoadAgreesWithValidator ==
  \A p \in Procs :
    (module[p] = "loaded" /\ HexMode(env[p]))
    => isValidMasterKeyHex(env[p].MASTER_KEY_HEX)

\* Call c, if it is a waFetch call that called fetch: the request has one
\* Authorization header, "Bearer " and the token getCreds returned to this
\* call.
Bearing(c) ==
  (c.op = "waFetch" /\ c.req.set)
  => /\ Cardinality({i \in 1..Len(c.req.headers) :
                       c.req.headers[i][1] = Authorization}) = 1
     /\ Get(c.req.headers, Authorization) = Bearer \o Get(c.got.res.value, token)

\* C26: whatever extra headers the caller of waFetch passes, one named
\* Authorization included, the request sent upstream carries the stored
\* token as its Authorization header.
C26_BearerNotOverridden ==
  /\ \A n \in DOMAIN calls : Bearing(calls[n])
  /\ last.op /= "none" => Bearing(last)

\* C27: the store changes only when it takes the write of a saveCreds call,
\* for the key of that call's id; the steps of getCreds and waFetch calls,
\* their returns and their failures included, leave every blob as it is.
C27_ReadsDoNotWrite ==
  [][/\ redis' /= redis
        => \E n \in DOMAIN calls :
             /\ calls[n].op = "saveCreds"
             /\ calls[n].pc = "set"
             /\ redis' = StoreSet(redis, keyFor(calls[n].id), calls[n].enc.value)
     /\ \A n \in DOMAIN calls :
          (calls[n].op \in {"getCreds", "waFetch"}
           /\ (n \notin DOMAIN calls' \/ calls'[n].pc /= calls[n].pc))
          => redis' = redis]_vars

\* A waFetch of the process with the other key failed on a blob it could not
\* decrypt, and the blob is in the store as before.
C27_Witness ==
  /\ last.op = "waFetch"
  /\ last.pc = "done"
  /\ last.proc = 2
  /\ last.enc /= Null
  /\ ~last.res.ok
  /\ StoreGet(redis, keyFor(last.id)) = last.enc

\* The characters the master key pattern accepts.
HexSet ==
  {"0", "1", "2", "3", "4", "5", "6", "7", "8", "9",
   "a", "b", "c", "d", "e", "f", "A", "B", "C", "D", "E", "F"}

\* C28: isValidMasterKeyHex(s) is true exactly when s is 64 characters, each
\* of them a hexadecimal digit of either case.
C28_ValidatorExact ==
  helper.op = "isValidMasterKeyHex"
  => /\ helper.res.ok
     /\ helper.res.value
          <=> (Len(helper.arg) = 64 /\ \A i \in 1..Len(helper.arg) : helper.arg[i] \in HexSet)

\* 64 hexadecimal digits with a line feed behind them were refused.
C28_Witness ==
  /\ helper.op = "isValidMasterKeyHex"
  /\ helper.arg = Rep("a", 32) \o Rep("F", 32) \o <<"\n">>
  /\ helper.res.value = FALSE

\* The keys generateMasterKeyHex can return.
Generated == {generateMasterKeyHex(randomBytes) : randomBytes \in RandomKeys}

\* C29 as stated: a call of getMasterKeyHex returns MASTER_KEY_HEX as it is
\* when it is set and is 64 hex characters, throws when it is set and is not,
\* returns a newly generated key only when it is not set, and returns no
\* string that isValidMasterKeyHex rejects.
C29_GetMasterKeyHex ==
  [][helper' /= helper
     => LET k == env[helper'.proc].MASTER_KEY_HEX
        IN  /\ (k /= Undefined /\ isValidMasterKeyHex(k)) => helper'.res = Ok(k)
            /\ (k /= Undefined /\ ~isValidMasterKeyHex(k)) => ~helper'.res.ok
            /\ k = Undefined => (helper'.res.ok /\ helper'.res.value \in Generated)
            /\ helper'.res.ok => isValidMasterKeyHex(helper'.res.value)]_vars

\* C29, amended: a call of getMasterKeyHex returns MASTER_KEY_HEX as it is
\* when it is a string of 64 hex characters, throws when it is another string
\* that is not empty, and returns a newly generated key, which it writes to
\* the console, when MASTER_KEY_HEX is not set or is empty; it returns no
\* string that isValidMasterKeyHex rejects.
C29_GetMasterKeyHexEmptyIsUnset ==
  [][helper' /= helper
     => LET k == env[helper'.proc].MASTER_KEY_HEX
            unset == k = Undefined \/ k = <<>>
        IN  /\ (~unset /\ isValidMasterKeyHex(k))
                 => (helper'.res = Ok(k) /\ console' = console)
            /\ (~unset /\ ~isValidMasterKeyHex(k))
                 => (~helper'.res.ok /\ console' = console)
            /\ unset => /\ helper'.res.ok
                        /\ helper'.res.value \in Generated
                        /\ Len(console') = Len(console) + 2
            /\ helper'.res.ok => isValidMasterKeyHex(helper'.res.value)]_vars

\* With MASTER_KEY_HEX set to the empty string, getMasterKeyHex returned a
\* generated key.
C29_Witness ==
  /\ helper.op = "getMasterKeyHex"
  /\ env[helper.proc].MASTER_KEY_HEX = <<>>
  /\ helper.res.ok
  /\ helper.res.value \in Generated
  /\ helper.res.value /= Rep("0", 64)
  /\ Len(console) = 2

\* C30: a string returned by generateMasterKeyHex is 64 characters that
\* isValidMasterKeyHex accepts, and hexKeyToBuffer accepts it and returns 32
\* bytes, those the generator drew.
C30_GeneratedKeyValid ==
  /\ helper.op = "generateMasterKeyHex"
       => /\ helper.res.ok
          /\ Len(helper.res.value) = 2 * KeyLen
          /\ isValidMasterKeyHex(helper.res.value)
          /\ hexKeyToBuffer(helper.res.value) = Ok(helper.arg)
  /\ (helper.op = "isValidMasterKeyHex" /\ helper.arg \in Generated)
       => helper.res.value
  /\ (helper.op = "hexKeyToBuffer" /\ helper.arg \in Generated)
       => /\ helper.res.ok
          /\ Len(helper.res.value) = KeyLen
          /\ HexEncode(helper.res.value) = helper.arg

\* hexKeyToBuffer returned the 32 bytes of a generated key that has letters
\* among its digits.
C30_Witness ==
  /\ helper.op = "hexKeyToBuffer"
  /\ helper.arg \in Generated
  /\ helper.arg /= Rep("0", 64)
  /\ helper.res.ok
  /\ helper.res.value = Tuple([i \in 1..KeyLen |-> 7 * i])

====
